---- MODULE Spec2Model ----
(***************************************************************************)
(* Model of bitcoindiv.py: RSI divergence scanner with MACD confirmation.  *)
(*                                                                         *)
(* Series (pandas columns) are functions over 0..N-1, as in the source's   *)
(* positional indexing.  Index lists (peaks, valleys) are sequences.       *)
(* Prices are integers.  The indicator columns are float64 values, every   *)
(* operation rounded as IEEE 754 rounds it; NaN is an explicit value.      *)
(***************************************************************************)
EXTENDS Integers, Sequences, FiniteSets, TLC

(* ---------------- configuration (bitcoindiv.py:7-16) ------------------- *)
TIMEFRAMES == <<"15m", "1h", "4h", "1d">>
RSI_LENGTH == 14
LOOKBACK == 5
MACD_FAST == 12
MACD_SLOW == 26
MACD_SIGNAL == 9
FRESH_BARS == 15

(* ---------------- integer arithmetic ------------------------------------ *)
(* An integer of any size is a little-endian sequence of digits in base    *)
(* Base = 2^DigitBits: every digit but the last is in 0..Base-1 and the    *)
(* last (top) digit is a non-zero integer whose sign is the sign of the    *)
(* number; zero is << >>.  The value is the sum of d[i] * Base^(i-1).      *)
DigitBits == 14
Base == 2 ^ DigitBits

Digit(a, i) == IF i <= Len(a) THEN a[i] ELSE 0

RECURSIVE ZTrim(_)
ZTrim(a) ==
  IF Len(a) > 0 /\ a[Len(a)] = 0 THEN ZTrim(SubSeq(a, 1, Len(a) - 1)) ELSE a

(* the digits acc followed by the carry c as top digits *)
RECURSIVE ZTop(_, _)
ZTop(acc, c) ==
  IF c = 0 THEN ZTrim(acc)
  ELSE IF -Base <= c /\ c < Base THEN Append(acc, c)
  ELSE ZTop(Append(acc, c % Base), c \div Base)

ZInt(n) == ZTop(<< >>, n)

(* digits i.. of a * ka + b * kb, for small integers ka and kb *)
RECURSIVE ZLinR(_, _, _, _, _, _, _)
ZLinR(a, ka, b, kb, i, c, acc) ==
  IF i > Len(a) /\ i > Len(b)
  THEN ZTop(acc, c)
  ELSE LET s == Digit(a, i) * ka + Digit(b, i) * kb + c
       IN  ZLinR(a, ka, b, kb, i + 1, s \div Base, Append(acc, s % Base))

ZLin(a, ka, b, kb) == ZLinR(a, ka, b, kb, 1, 0, << >>)

ZMulS(a, k) == ZLin(a, k, << >>, 0)
ZSub(a, b) == ZLin(a, 1, b, -1)

(* -1, 0, 1 as a < 0, a = 0, a > 0 *)
ZSign(a) ==
  IF a = << >> THEN 0 ELSE IF a[Len(a)] < 0 THEN -1 ELSE 1

(* -1, 0, 1 as a < b, a = b, a > b *)
ZCmp(a, b) == ZSign(ZSub(a, b))

ZAbs(a) == IF ZSign(a) < 0 THEN ZMulS(a, -1) ELSE a

(* a * b for a, b >= 0: Horner's rule over the digits of b from the top *)
RECURSIVE ZMulR(_, _, _, _)
ZMulR(a, b, j, acc) ==
  IF j = 0 THEN acc
  ELSE ZMulR(a, b, j - 1,
             ZLin(IF acc = << >> THEN << >> ELSE <<0>> \o acc, 1, a, b[j]))

ZMul(a, b) == ZMulR(a, b, Len(b), << >>)

(* the value of a, for a >= 0 that fits a machine integer *)
RECURSIVE ZToInt(_)
ZToInt(a) == IF a = << >> THEN 0 ELSE a[1] + Base * ZToInt(Tail(a))

(* number of bits of a >= 0 *)
RECURSIVE Bits(_)
Bits(d) == IF d = 0 THEN 0 ELSE 1 + Bits(d \div 2)

BitLen(a) ==
  IF a = << >> THEN 0 ELSE DigitBits * (Len(a) - 1) + Bits(a[Len(a)])

(* a * 2^s and floor(a / 2^s), for a >= 0 *)
ShiftLeft(a, s) ==
  IF a = << >> THEN a
  ELSE [i \in 1 .. s \div DigitBits |-> 0] \o ZMulS(a, 2 ^ (s % DigitBits))

ShiftRightBy(a, k, j) ==
  ZTrim(<< >> \o [i \in 1 .. Len(a) - k |->
           (a[i + k] \div 2 ^ j)
           + (Digit(a, i + k + 1) % 2 ^ j) * 2 ^ (DigitBits - j)])

ShiftRight(a, s) == ShiftRightBy(a, s \div DigitBits, s % DigitBits)

(* bit p of a, and whether any bit below p is set *)
BitAt(a, p) == (Digit(a, p \div DigitBits + 1) \div 2 ^ (p % DigitBits)) % 2

AnyBelow(a, p) ==
  \/ \E i \in 1 .. p \div DigitBits : Digit(a, i) # 0
  \/ Digit(a, p \div DigitBits + 1) % 2 ^ (p % DigitBits) # 0

(* a / 2^s rounded to the nearest integer, a tie to the even one (s >= 1) *)
RoundShift(a, s) ==
  IF BitAt(a, s - 1) = 1 /\ (AnyBelow(a, s - 1) \/ BitAt(a, s) = 1)
  THEN ZLin(ShiftRight(a, s), 1, <<1>>, 1)
  ELSE ShiftRight(a, s)

(* <<floor(n / d), n mod d * f>> for n >= 0 and d > 0: long division over  *)
(* the digits of n from the top.  d is scaled to a top digit >= Base / 2,  *)
(* so the quotient digit estimated from the top digits is at most 2 too    *)
(* large; DivFix steps it down until the remainder is not negative.        *)
QHat(cur, d) ==
  LET t == (Digit(cur, Len(d) + 1) * Base + Digit(cur, Len(d))) \div d[Len(d)]
  IN  IF t > Base - 1 THEN Base - 1 ELSE t

RECURSIVE DivLoop(_, _, _, _, _)
RECURSIVE DivFix(_, _, _, _, _, _)
DivFix(n, d, i, q, qd, r) ==
  IF ZSign(r) < 0
  THEN DivFix(n, d, i, q, qd - 1, ZLin(r, 1, d, 1))
  ELSE DivLoop(n, d, i - 1, r, <<qd>> \o q)

DivStep(n, d, i, cur, q) ==
  DivFix(n, d, i, q, QHat(cur, d), ZLin(cur, 1, d, -QHat(cur, d)))

DivLoop(n, d, i, rem, q) ==
  IF i = 0 THEN <<ZTrim(q), rem>>
  ELSE DivStep(n, d, i,
               IF rem = << >> THEN ZInt(n[i]) ELSE <<n[i]>> \o rem, q)

ZDivScaled(n, d) == DivLoop(n, d, Len(n), << >>, << >>)

ZDivMod(n, d) ==
  ZDivScaled(ZMulS(n, 2 ^ (DigitBits - Bits(d[Len(d)]))),
             ZMulS(d, 2 ^ (DigitBits - Bits(d[Len(d)]))))

(* ---------------- float64 values ----------------------------------------- *)
(* The columns of the frame are float64.  A float is NaN, an infinity, a   *)
(* signed zero, or a finite value (-1)^neg * m * 2^e whose mantissa m has  *)
(* exactly MantBits bits.  Every operation rounds the exact result to the  *)
(* nearest float, a tie to the even mantissa, as IEEE 754 does.  The       *)
(* exponent is not limited: the values of the indicators stay far from the *)
(* overflow and underflow thresholds.                                       *)
MantBits == 53

NaN == [cls |-> "nan", neg |-> FALSE, m |-> << >>, e |-> 0]
Inf(neg) == [cls |-> "inf", neg |-> neg, m |-> << >>, e |-> 0]
Zero(neg) == [cls |-> "zero", neg |-> neg, m |-> << >>, e |-> 0]
Fin(neg, m, e) == [cls |-> "fin", neg |-> neg, m |-> m, e |-> e]

IsNaN(a) == a.cls = "nan"

(* a rounded mantissa that reached 2^MantBits is halved *)
FRenorm(neg, m, e) ==
  IF BitLen(m) > MantBits THEN Fin(neg, ShiftRight(m, 1), e + 1)
  ELSE Fin(neg, m, e)

(* the float nearest to (-1)^neg * m * 2^e, for an integer m > 0 of L bits *)
FNormL(neg, m, e, L) ==
  IF L <= MantBits
  THEN Fin(neg, ShiftLeft(m, MantBits - L), e - (MantBits - L))
  ELSE FRenorm(neg, RoundShift(m, L - MantBits), e + (L - MantBits))

FNorm(neg, m, e) ==
  IF m = << >> THEN Zero(neg) ELSE FNormL(neg, m, e, BitLen(m))

(* float(n) for an integer n *)
FromInt(n) == IF n < 0 THEN FNorm(TRUE, ZInt(-n), 0) ELSE FNorm(FALSE, ZInt(n), 0)

One == FromInt(1)
Hundred == FromInt(100)

FNeg(a) == IF IsNaN(a) THEN a ELSE [a EXCEPT !.neg = ~a.neg]

FMul(a, b) ==
  IF IsNaN(a) \/ IsNaN(b) THEN NaN
  ELSE IF a.cls = "inf" \/ b.cls = "inf"
  THEN IF a.cls = "zero" \/ b.cls = "zero" THEN NaN ELSE Inf(a.neg # b.neg)
  ELSE IF a.cls = "zero" \/ b.cls = "zero" THEN Zero(a.neg # b.neg)
  ELSE FNorm(a.neg # b.neg, ZMul(a.m, b.m), a.e + b.e)

(* the float nearest to s * 2^e for a signed integer s; an exact sum of    *)
(* zero is +0.0                                                             *)
FOfSigned(s, e) ==
  IF s = << >> THEN Zero(FALSE) ELSE FNorm(ZSign(s) < 0, ZAbs(s), e)

FAddFin(a, b, e) ==
  FOfSigned(ZLin(ShiftLeft(a.m, a.e - e), IF a.neg THEN -1 ELSE 1,
                 ShiftLeft(b.m, b.e - e), IF b.neg THEN -1 ELSE 1), e)

FAdd(a, b) ==
  IF IsNaN(a) \/ IsNaN(b) THEN NaN
  ELSE IF a.cls = "inf"
  THEN IF b.cls = "inf" /\ a.neg # b.neg THEN NaN ELSE a
  ELSE IF b.cls = "inf" THEN b
  ELSE IF a.cls = "zero"
  THEN IF b.cls = "zero" THEN Zero(a.neg /\ b.neg) ELSE b
  ELSE IF b.cls = "zero" THEN a
  ELSE FAddFin(a, b, IF a.e < b.e THEN a.e ELSE b.e)

FSub(a, b) == FAdd(a, FNeg(b))

(* the quotient of two mantissas carries MantBits + 2 bits or more, and    *)
(* one more bit below them that is set when the division left a remainder  *)
FOfQuot(neg, qr, e) ==
  FNorm(neg, ZLin(qr[1], 2, IF qr[2] = << >> THEN << >> ELSE <<1>>, 1), e - 1)

FDiv(a, b) ==
  IF IsNaN(a) \/ IsNaN(b) THEN NaN
  ELSE IF a.cls = "inf"
  THEN IF b.cls = "inf" THEN NaN ELSE Inf(a.neg # b.neg)
  ELSE IF b.cls = "inf" THEN Zero(a.neg # b.neg)
  ELSE IF b.cls = "zero"
  THEN IF a.cls = "zero" THEN NaN ELSE Inf(a.neg # b.neg)
  ELSE IF a.cls = "zero" THEN Zero(a.neg # b.neg)
  ELSE IF b = One THEN a
  ELSE FOfQuot(a.neg # b.neg,
               ZDivMod(ShiftLeft(a.m, MantBits + 2), b.m),
               a.e - b.e - (MantBits + 2))

(* -1, 0, 1 as a < b, a = b, a > b, for a and b other than NaN *)
FSgn(a) == IF a.cls = "zero" THEN 0 ELSE IF a.neg THEN -1 ELSE 1

MagCmp(a, b) ==
  IF a.cls = "inf" THEN (IF b.cls = "inf" THEN 0 ELSE 1)
  ELSE IF b.cls = "inf" THEN -1
  ELSE IF a.e # b.e THEN (IF a.e > b.e THEN 1 ELSE -1)
  ELSE ZCmp(a.m, b.m)

FCmp(a, b) ==
  IF FSgn(a) # FSgn(b) THEN (IF FSgn(a) > FSgn(b) THEN 1 ELSE -1)
  ELSE IF FSgn(a) = 0 THEN 0
  ELSE FSgn(a) * MagCmp(a, b)

(* a != b *)
FloatNe(a, b) == IsNaN(a) \/ IsNaN(b) \/ FCmp(a, b) # 0

(* FloatGt after a fillna(0): NaN compares as the value 0 *)
FloatGtNanAsZero(r1, r2) ==
  FCmp(IF IsNaN(r1) THEN Zero(FALSE) ELSE r1,
       IF IsNaN(r2) THEN Zero(FALSE) ELSE r2) = 1

(* r1 > r2: False when either side is NaN *)
FloatGt(r1, r2) == ~IsNaN(r1) /\ ~IsNaN(r2) /\ FCmp(r1, r2) = 1

(* r1 < r2: False when either side is NaN *)
FloatLt(r1, r2) == ~IsNaN(r1) /\ ~IsNaN(r2) /\ FCmp(r1, r2) = -1

(* ---------------- series helpers ---------------------------------------- *)
(* len(series) for a series held as a function over 0..N-1 *)
SLen(s) == Cardinality(DOMAIN s)

(* the 0-based series holding the elements of a sequence *)
ToSeries(q) == [i \in 0 .. Len(q) - 1 |-> q[i + 1]]

(* ---------------- calculate_indicators (bitcoindiv.py:43-64) ------------ *)
(* delta = close.diff(): NaN at index 0, close[i] - close[i-1] after it *)
delta(close, i) == IF i = 0 THEN "NaN" ELSE close[i] - close[i - 1]

(* gain = delta.where(delta > 0, 0): the NaN at index 0 fails the test and *)
(* is replaced by 0, like every non-positive change                         *)
gain(close, i) ==
  IF i = 0 THEN FromInt(0)
  ELSE IF delta(close, i) > 0 THEN FromInt(delta(close, i)) ELSE FromInt(0)

(* loss = -delta.where(delta < 0, 0): the replaced entries are -0.0 *)
loss(close, i) ==
  IF i = 0 THEN FNeg(FromInt(0))
  ELSE IF delta(close, i) < 0 THEN FNeg(FromInt(delta(close, i)))
       ELSE FNeg(FromInt(0))

(* ewm(...): pandas turns alpha or span into the centre of mass com,       *)
(*   com = (1 - alpha) / alpha   or   com = (span - 1) / 2,                 *)
(* and the mean is computed with alpha = 1 / (1 + com), the weight of the  *)
(* new value new_wt = alpha and of the old mean old_wt = 1 * (1 - alpha).  *)
ComOfAlpha(alpha) == FDiv(FSub(One, alpha), alpha)
ComOfSpan(span) == FDiv(FromInt(span - 1), FromInt(2))

WeightsOf(new_wt, old_wt) ==
  [new_wt |-> new_wt, old_wt |-> old_wt, wt_sum |-> FAdd(old_wt, new_wt)]

WeightsOfAlpha(alpha) == WeightsOf(alpha, FMul(One, FSub(One, alpha)))

WeightsOfCom(com) == WeightsOfAlpha(FDiv(One, FAdd(One, com)))

RsiWeights == WeightsOfCom(ComOfAlpha(FDiv(One, FromInt(RSI_LENGTH))))
FastWeights == WeightsOfCom(ComOfSpan(MACD_FAST))
SlowWeights == WeightsOfCom(ComOfSpan(MACD_SLOW))
SignalWeights == WeightsOfCom(ComOfSpan(MACD_SIGNAL))

(* adjust=False, no NaN in the input:                                      *)
(*   if weighted != cur:                                                    *)
(*       weighted = (old_wt * weighted + new_wt * cur) / (old_wt + new_wt) *)
EwmStep(wts, weighted, cur) ==
  IF FloatNe(weighted, cur)
  THEN FDiv(FAdd(FMul(wts.old_wt, weighted), FMul(wts.new_wt, cur)),
            wts.wt_sum)
  ELSE weighted

(* appends the means at i..N-1 to acc, weighted being the mean at i *)
RECURSIVE EwmR(_, _, _, _, _, _)
EwmR(wts, x, N, i, weighted, acc) ==
  IF i >= N THEN acc
  ELSE EwmR(wts, x, N, i + 1,
            IF i + 1 < N THEN EwmStep(wts, weighted, x[i + 1]) ELSE weighted,
            Append(acc, weighted))

(* x.ewm(..., adjust=False).mean() without min_periods *)
Ewm(wts, x) ==
  IF SLen(x) = 0 THEN x
  ELSE ToSeries(EwmR(wts, x, SLen(x), 0, x[0], << >>))

(* min_periods=RSI_LENGTH: the mean is NaN until RSI_LENGTH observations   *)
(* have been seen; index i has seen i+1 (gain and loss hold no NaN)        *)
MinPeriodsOk(i) == i + 1 >= RSI_LENGTH

MaskMinPeriods(y) ==
  [i \in DOMAIN y |-> IF MinPeriodsOk(i) THEN y[i] ELSE NaN]

(* x.ewm(alpha=1/RSI_LENGTH, min_periods=RSI_LENGTH, adjust=False).mean() *)
EwmMinPeriods(wts, x) == MaskMinPeriods(Ewm(wts, x))

(* rs = avg_gain / avg_loss;  rsi = 100 - (100 / (1 + rs)) *)
rsiAt(avg_gain, avg_loss) ==
  FSub(Hundred, FDiv(Hundred, FAdd(One, FDiv(avg_gain, avg_loss))))

rsiOf(avg_gain, avg_loss) ==
  [i \in DOMAIN avg_gain |-> rsiAt(avg_gain[i], avg_loss[i])]

rsiColumn(close) ==
  rsiOf(EwmMinPeriods(RsiWeights, [i \in DOMAIN close |-> gain(close, i)]),
        EwmMinPeriods(RsiWeights, [i \in DOMAIN close |-> loss(close, i)]))

(* macd_line = exp1 - exp2 *)
macdLine(exp1, exp2) == [i \in DOMAIN exp1 |-> FSub(exp1[i], exp2[i])]

(* macd_hist = macd_line - signal_line *)
macdHist(macd_line, signal_line) ==
  [i \in DOMAIN macd_line |-> FSub(macd_line[i], signal_line[i])]

macdHistOf(macd_line) == macdHist(macd_line, Ewm(SignalWeights, macd_line))

macdHistOfClose(closeF) ==
  macdHistOf(macdLine(Ewm(FastWeights, closeF), Ewm(SlowWeights, closeF)))

macdHistColumn(close) ==
  macdHistOfClose([i \in DOMAIN close |-> FromInt(close[i])])

Indicators(close) ==
  [rsi |-> rsiColumn(close), macd_hist |-> macdHistColumn(close)]

(* ---------------- input candles ------------------------------------------ *)
(* Bounded family of candle series with low[i] <= close[i] <= high[i]:     *)
(* the close starts at BaseClose and moves by mv[k] at index MovePos[k];   *)
(* low is LowBase and high is HighBase, each with two swing points at      *)
(* chosen indices and of chosen sizes, plus smaller swings before them.    *)
MaxN == 35
BaseClose == 10
LowBase == 3
HighBase == 17

Lengths == {MACD_SLOW + 1, MaxN - 1, MaxN}
MovePos == <<10, 16, 23>>
Moves == [1 .. Len(MovePos) -> {-1, 0, 1}]
SwingPairs ==
  {<<7, 19>>, <<13, 19>>, <<13, 20>>, <<13, 26>>, <<19, 26>>, <<23, 29>>}
SwingSizes == {<<2, 1>>, <<1, 2>>}
Shapes == SwingPairs \X SwingSizes

(* the sum of the first k moves that happened at or before index i *)
RECURSIVE MovedBy(_, _, _)
MovedBy(mv, i, k) ==
  IF k = 0 THEN 0
  ELSE MovedBy(mv, i, k - 1) + (IF MovePos[k] <= i THEN mv[k] ELSE 0)

CloseAt(mv, i) == BaseClose + MovedBy(mv, i, Len(MovePos))

(* offset of a swing series from its base at index i: the two chosen       *)
(* swings, a swing of size 1 at 13 before a pair starting at 19, and an    *)
(* opposite swing of size 1 at 7 before a pair starting after 7            *)
SwingAt(shape, i) ==
  LET pair == shape[1]
      size == shape[2]
  IN  IF i = pair[1] THEN size[1]
      ELSE IF i = pair[2] THEN size[2]
      ELSE IF i = 13 /\ pair[1] > 13 THEN 1
      ELSE IF i = 7 /\ pair[1] > 7 THEN -1
      ELSE 0

Candles(N, mv, lowShape, highShape) ==
  [high  |-> [i \in 0 .. N - 1 |-> HighBase - SwingAt(highShape, i)],
   low   |-> [i \in 0 .. N - 1 |-> LowBase + SwingAt(lowShape, i)],
   close |-> [i \in 0 .. N - 1 |-> CloseAt(mv, i)]]

InputCloses == {[i \in 0 .. N - 1 |-> CloseAt(mv, i)] : N \in Lengths, mv \in Moves}

(* The indicator columns of the closes of the family, computed once.       *)
KnownIndicators == [close \in InputCloses |-> Indicators(close)]

(* df = calculate_indicators(df): adds the rsi and macd_hist columns *)
calculate_indicators(df) ==
  LET ind == IF df.close \in InputCloses
             THEN KnownIndicators[df.close] ELSE Indicators(df.close)
  IN  [high |-> df.high, low |-> df.low, close |-> df.close,
       rsi |-> ind.rsi, macd_hist |-> ind.macd_hist]


(* ---------------- find_peaks_valleys (bitcoindiv.py:66-82) -------------- *)
(* IsPeak with >= in place of >: a tie with a neighbour still counts *)
IsPeakNonStrict(series, lookback, i) ==
  /\ \A j \in 1 .. lookback : series[i] >= series[i - j]
  /\ \A j \in 1 .. lookback : series[i] >= series[i + j]

(* all(current > series[i-j] ...) and all(current > series[i+j] ...) *)
IsPeak(series, lookback, i) ==
  /\ \A j \in 1 .. lookback : series[i] > series[i - j]
  /\ \A j \in 1 .. lookback : series[i] > series[i + j]

(* IsValley with the comparisons of the peak test left unturned *)
IsValleySameAsPeak(series, lookback, i) ==
  /\ \A j \in 1 .. lookback : series[i] > series[i - j]
  /\ \A j \in 1 .. lookback : series[i] > series[i + j]

(* all(current < series[i-j] ...) and all(current < series[i+j] ...) *)
IsValley(series, lookback, i) ==
  /\ \A j \in 1 .. lookback : series[i] < series[i - j]
  /\ \A j \in 1 .. lookback : series[i] < series[i + j]

(* range(lookback, len(series) - lookback): first index and stop index *)
LoopStart(series, lookback) == lookback
LoopStop(series, lookback) == SLen(series) - lookback

(* FpvLoop recording one-based positions: i + 1 in place of i *)
RECURSIVE FpvLoopOneBased(_, _, _, _, _)
FpvLoopOneBased(series, lookback, i, peaks, valleys) ==
  IF i >= LoopStop(series, lookback)
  THEN <<peaks, valleys>>
  ELSE FpvLoopOneBased(series, lookback, i + 1,
         IF IsPeak(series, lookback, i) THEN Append(peaks, i + 1) ELSE peaks,
         IF IsValley(series, lookback, i) THEN Append(valleys, i + 1) ELSE valleys)

(* the for loop from index i on, with the lists built so far *)
RECURSIVE FpvLoop(_, _, _, _, _)
FpvLoop(series, lookback, i, peaks, valleys) ==
  IF i >= LoopStop(series, lookback)
  THEN <<peaks, valleys>>
  ELSE FpvLoop(series, lookback, i + 1,
               IF IsPeak(series, lookback, i) THEN Append(peaks, i) ELSE peaks,
               IF IsValley(series, lookback, i) THEN Append(valleys, i) ELSE valleys)

(* returns the pair (peaks, valleys) *)
find_peaks_valleys(series, lookback) ==
  IF SLen(series) < lookback * 2
  THEN <<<< >>, << >>>>
  ELSE FpvLoop(series, lookback, LoopStart(series, lookback), << >>, << >>)

(* ---------------- analyze_market (bitcoindiv.py:84-143) ----------------- *)
(* format(r, ".0f"): the exact value of the float rounded to the nearest   *)
(* integer, a tie going to the even one; a negative value keeps its sign   *)
RoundMag(r) ==
  IF r.cls = "zero" THEN 0
  ELSE IF r.e >= 0 THEN ZToInt(ShiftLeft(r.m, r.e))
  ELSE ZToInt(RoundShift(r.m, -r.e))

RoundRsi(r) ==
  IF IsNaN(r) THEN "nan"
  ELSE IF r.cls = "inf" THEN (IF r.neg THEN "-inf" ELSE "inf")
  ELSE IF r.neg THEN <<"-", RoundMag(r)>>
  ELSE RoundMag(r)

(* f"P:{p_prev:.0f}->{p_last:.0f} RSI:{r_prev:.0f}->{r_last:.0f}" *)
Details(p_prev, p_last, r_prev, r_last) ==
  <<"P", p_prev, p_last, "RSI", RoundRsi(r_prev), RoundRsi(r_last)>>

(* IsFresh with <= in place of < *)
IsFreshInclusive(N, last_idx) == N - last_idx <= FRESH_BARS

(* len(df) - last_idx < 15 *)
IsFresh(N, last_idx) == N - last_idx < FRESH_BARS

(* price_valleys_idx, _ = find_peaks_valleys(df['low'], LOOKBACK):         *)
(* the first element of the returned pair                                   *)
PriceValleysIdx(low_extrema) == low_extrema[1]

(* _, price_peaks_idx = find_peaks_valleys(df['high'], LOOKBACK):          *)
(* the second element of the returned pair                                  *)
PricePeaksIdx(high_extrema) == high_extrema[2]

(* lines 99-119; st holds signal, details, macd_conf before the check *)
BullishCheck(df, idx, curr_hist, prev_hist, st) ==
  IF Len(idx) >= 2
  THEN LET last_idx == idx[Len(idx)]
           prev_idx == idx[Len(idx) - 1]
           p_last == df.low[last_idx]
           p_prev == df.low[prev_idx]
           r_last == df.rsi[last_idx]
           r_prev == df.rsi[prev_idx]
       IN  IF IsFresh(SLen(df.close), last_idx)
              /\ p_last < p_prev /\ FloatGt(r_last, r_prev)
           THEN [signal |-> "BULLISH DIV",
                 details |-> Details(p_prev, p_last, r_prev, r_last),
                 macd_conf |-> IF FloatGt(curr_hist, prev_hist)
                               THEN "JA (Steigend)" ELSE "NEIN",
                 bull |-> TRUE, bear |-> FALSE]
           ELSE st
  ELSE st

(* BearishCheck as an elif of the bullish check: skipped once the        *)
(* bullish check has assigned the signal                                    *)
BearishCheckUnlessBullish(df, idx, curr_hist, prev_hist, st) ==
  IF Len(idx) >= 2 /\ st.signal = "Neutral"
  THEN LET last_idx == idx[Len(idx)]
           prev_idx == idx[Len(idx) - 1]
           p_last == df.high[last_idx]
           p_prev == df.high[prev_idx]
           r_last == df.rsi[last_idx]
           r_prev == df.rsi[prev_idx]
       IN  IF IsFresh(SLen(df.close), last_idx)
              /\ p_last > p_prev /\ FloatLt(r_last, r_prev)
           THEN [signal |-> "BEARISH DIV",
                 details |-> Details(p_prev, p_last, r_prev, r_last),
                 macd_conf |-> IF FloatLt(curr_hist, prev_hist)
                               THEN "JA (Fallend)" ELSE "NEIN",
                 bull |-> st.bull, bear |-> TRUE]
           ELSE st
  ELSE st

(* BearishCheck confirming on a rising histogram, as the bullish check does *)
BearishCheckRising(df, idx, curr_hist, prev_hist, st) ==
  IF Len(idx) >= 2
  THEN LET last_idx == idx[Len(idx)]
           prev_idx == idx[Len(idx) - 1]
           p_last == df.high[last_idx]
           p_prev == df.high[prev_idx]
           r_last == df.rsi[last_idx]
           r_prev == df.rsi[prev_idx]
       IN  IF IsFresh(SLen(df.close), last_idx)
              /\ p_last > p_prev /\ FloatLt(r_last, r_prev)
           THEN [signal |-> "BEARISH DIV",
                 details |-> Details(p_prev, p_last, r_prev, r_last),
                 macd_conf |-> IF FloatGt(curr_hist, prev_hist)
                               THEN "JA (Fallend)" ELSE "NEIN",
                 bull |-> st.bull, bear |-> TRUE]
           ELSE st
  ELSE st

(* lines 121-141 *)
BearishCheck(df, idx, curr_hist, prev_hist, st) ==
  IF Len(idx) >= 2
  THEN LET last_idx == idx[Len(idx)]
           prev_idx == idx[Len(idx) - 1]
           p_last == df.high[last_idx]
           p_prev == df.high[prev_idx]
           r_last == df.rsi[last_idx]
           r_prev == df.rsi[prev_idx]
       IN  IF IsFresh(SLen(df.close), last_idx)
              /\ p_last > p_prev /\ FloatLt(r_last, r_prev)
           THEN [signal |-> "BEARISH DIV",
                 details |-> Details(p_prev, p_last, r_prev, r_last),
                 macd_conf |-> IF FloatLt(curr_hist, prev_hist)
                               THEN "JA (Fallend)" ELSE "NEIN",
                 bull |-> st.bull, bear |-> TRUE]
           ELSE st
  ELSE st

(* The value returned, (price, signal, details, macd_conf), with the       *)
(* function's locals at the return: the indicator columns, the pairs the   *)
(* two find_peaks_valleys calls returned, the two index lists taken from   *)
(* them, and which of the two checks assigned the signal (bull, bear).     *)
AnalyzeWith(df, low_extrema, high_extrema) ==
  LET N == SLen(df.close)
      price_valleys_idx == PriceValleysIdx(low_extrema)
      price_peaks_idx == PricePeaksIdx(high_extrema)
      curr_hist == df.macd_hist[N - 1]
      prev_hist == df.macd_hist[N - 2]
      st0 == [signal |-> "Neutral", details |-> <<"-">>, macd_conf |-> "-",
              bull |-> FALSE, bear |-> FALSE]
      st1 == BullishCheck(df, price_valleys_idx, curr_hist, prev_hist, st0)
      st2 == BearishCheck(df, price_peaks_idx, curr_hist, prev_hist, st1)
  IN  [price |-> df.close[N - 1], signal |-> st2.signal,
       details |-> st2.details, macd_conf |-> st2.macd_conf,
       bull |-> st2.bull, bear |-> st2.bear,
       low_extrema |-> low_extrema, high_extrema |-> high_extrema,
       price_valleys_idx |-> price_valleys_idx,
       price_peaks_idx |-> price_peaks_idx,
       rsi |-> df.rsi, macd_hist |-> df.macd_hist]

AnalyzeDf(df) ==
  AnalyzeWith(df, find_peaks_valleys(df.low, LOOKBACK),
              find_peaks_valleys(df.high, LOOKBACK))

analyze_market(df0) == AnalyzeDf(calculate_indicators(df0))

(* ---------------- main (bitcoindiv.py:145-167) --------------------------- *)
(* pd.DataFrame(): no rows *)
EmptyDf == [high |-> << >>, low |-> << >>, close |-> << >>]

(* fetch_data_requests: the candles of the response, or the empty frame    *)
(* when the request or the decoding raised                                  *)
fetch_data_requests(response) ==
  IF response.ok THEN response.candles ELSE EmptyDf

(* ShouldAnalyze with >= in place of > *)
ShouldAnalyzeAtLeast(d) == SLen(d.close) # 0 /\ SLen(d.close) >= MACD_SLOW

(* not df.empty and len(df) > MACD_SLOW *)
ShouldAnalyze(d) == SLen(d.close) # 0 /\ SLen(d.close) > MACD_SLOW

(* f"${price:.2f}" of an integer price: the dollars and two decimals *)
FormatPrice(price) == <<"$", price, ".", 0, 0>>

(* [tf, f"${price:.2f}", signal, macd, info] *)
ReportRow(name, r) ==
  <<name, FormatPrice(r.price), r.signal, r.macd_conf, r.details>>

(* What the exchange may answer for one timeframe: a failure, no candles,  *)
(* exactly MACD_SLOW candles, or MACD_SLOW + 1 candles of three kinds.     *)
Responses ==
  { [ok |-> FALSE, candles |-> EmptyDf],
    [ok |-> TRUE, candles |-> EmptyDf],
    [ok |-> TRUE,
     candles |-> Candles(MACD_SLOW, <<1, -1, 1>>, <<<<7, 19>>, <<2, 1>>>>,
                         <<<<7, 19>>, <<2, 1>>>>)],
    [ok |-> TRUE,
     candles |-> Candles(MACD_SLOW + 1, <<0, 0, 0>>, <<<<13, 19>>, <<2, 1>>>>,
                         <<<<13, 19>>, <<1, 2>>>>)],
    [ok |-> TRUE,
     candles |-> Candles(MACD_SLOW + 1, <<1, 1, 0>>, <<<<13, 19>>, <<2, 1>>>>,
                         <<<<13, 19>>, <<1, 2>>>>)],
    [ok |-> TRUE,
     candles |-> Candles(MACD_SLOW + 1, <<1, -1, 0>>, <<<<13, 19>>, <<1, 2>>>>,
                         <<<<13, 19>>, <<2, 1>>>>)] }

(* ---------------- state --------------------------------------------------- *)
VARIABLES
  pc,        \* control point of the running function
  df,        \* the candles handed to analyze_market / fetched by main
  ret,       \* what analyze_market returned (with its locals)
  series,    \* find_peaks_valleys: the series argument
  lookback,  \* find_peaks_valleys: the lookback argument
  extrema,   \* find_peaks_valleys: the returned pair (peaks, valleys)
  tf,        \* main: number of timeframes the loop has finished
  results,   \* main: the report rows
  log        \* main: per finished timeframe, its name, the length of the
             \* fetched frame and whether analyze_market was called

vars == <<pc, df, ret, series, lookback, extrema, tf, results, log>>

NoRet == [signal |-> "none"]

(* ---------------- analyze_market on every input -------------------------- *)
InitAnalyze ==
  /\ pc = "analyze"
  /\ \E N \in Lengths, mv \in Moves, ls \in Shapes, hs \in Shapes :
       df = Candles(N, mv, ls, hs)
  /\ ret = NoRet
  /\ series = << >> /\ lookback = LOOKBACK /\ extrema = <<<< >>, << >>>>
  /\ tf = 0 /\ results = << >> /\ log = << >>

AnalyzeMarket ==
  /\ pc = "analyze"
  /\ ret' = analyze_market(df)
  /\ pc' = "returned"
  /\ UNCHANGED <<df, series, lookback, extrema, tf, results, log>>

NextAnalyze == AnalyzeMarket

SpecAnalyze == InitAnalyze /\ [][NextAnalyze]_vars

(* ---------------- find_peaks_valleys on every small series --------------- *)
MaxLen == 6
MaxVal == 2
MaxLookback == 2

InitFpv ==
  /\ pc = "find"
  /\ \E n \in 0 .. MaxLen : series \in [0 .. n - 1 -> 0 .. MaxVal]
  /\ lookback \in 1 .. MaxLookback
  /\ extrema = <<<< >>, << >>>>
  /\ df = EmptyDf /\ ret = NoRet
  /\ tf = 0 /\ results = << >> /\ log = << >>

FindPeaksValleys ==
  /\ pc = "find"
  /\ extrema' = find_peaks_valleys(series, lookback)
  /\ pc' = "found"
  /\ UNCHANGED <<df, ret, series, lookback, tf, results, log>>

NextFpv == FindPeaksValleys

SpecFpv == InitFpv /\ [][NextFpv]_vars

(* ---------------- main: the scan over the timeframes --------------------- *)
InitMain ==
  /\ pc = "scan"
  /\ tf = 0 /\ results = << >> /\ log = << >>
  /\ df = EmptyDf /\ ret = NoRet
  /\ series = << >> /\ lookback = LOOKBACK /\ extrema = <<<< >>, << >>>>

(* one pass of the for loop: fetch, analyze when long enough, append a row *)
ScanTimeframe ==
  /\ pc = "scan"
  /\ tf < Len(TIMEFRAMES)
  /\ \E response \in Responses :
       LET d == fetch_data_requests(response)
           name == TIMEFRAMES[tf + 1]
       IN  /\ df' = d
           /\ IF ShouldAnalyze(d)
              THEN /\ ret' = analyze_market(d)
                   /\ results' = Append(results, ReportRow(name, ret'))
                   /\ log' = Append(log, [tf |-> name, n |-> SLen(d.close),
                                          called |-> TRUE])
              ELSE /\ UNCHANGED <<ret, results>>
                   /\ log' = Append(log, [tf |-> name, n |-> SLen(d.close),
                                          called |-> FALSE])
  /\ tf' = tf + 1
  /\ UNCHANGED <<pc, series, lookback, extrema>>

(* after the loop: the report is printed *)
PrintReport ==
  /\ pc = "scan"
  /\ tf = Len(TIMEFRAMES)
  /\ pc' = "done"
  /\ UNCHANGED <<df, ret, series, lookback, extrema, tf, results, log>>

NextMain == ScanTimeframe \/ PrintReport

SpecMain == InitMain /\ [][NextMain]_vars

(* ======================= properties ====================================== *)
Elems(q) == {q[k] : k \in DOMAIN q}
Ascending(q) == \A k \in 1 .. Len(q) - 1 : q[k] < q[k + 1]
HasPair(idx) == Len(idx) >= 2
LastOf(idx) == idx[Len(idx)]
PrevOf(idx) == idx[Len(idx) - 1]
TopTwo(S) == IF Cardinality(S) >= 2
             THEN {i \in S : Cardinality({j \in S : j > i}) < 2} ELSE {}

(* the sets of section 4.2 of the specification *)
RefPeaks(S, W) ==
  {i \in W .. SLen(S) - W - 1 : \A j \in 1 .. W : S[i] > S[i - j] /\ S[i] > S[i + j]}
RefValleys(S, W) ==
  {i \in W .. SLen(S) - W - 1 : \A j \in 1 .. W : S[i] < S[i - j] /\ S[i] < S[i + j]}
TiesAt(S, W, i) == \E j \in 1 .. W : S[i] = S[i - j] \/ S[i] = S[i + j]

(* the conditions of the two checks, read from the returned state *)
NRet == SLen(df.close)
BullPriceMomentum ==
  /\ HasPair(ret.price_valleys_idx)
  /\ df.low[LastOf(ret.price_valleys_idx)] < df.low[PrevOf(ret.price_valleys_idx)]
  /\ FloatGt(ret.rsi[LastOf(ret.price_valleys_idx)],
             ret.rsi[PrevOf(ret.price_valleys_idx)])
BearPriceMomentum ==
  /\ HasPair(ret.price_peaks_idx)
  /\ df.high[LastOf(ret.price_peaks_idx)] > df.high[PrevOf(ret.price_peaks_idx)]
  /\ FloatLt(ret.rsi[LastOf(ret.price_peaks_idx)],
             ret.rsi[PrevOf(ret.price_peaks_idx)])
BullAge == NRet - LastOf(ret.price_valleys_idx)
BearAge == NRet - LastOf(ret.price_peaks_idx)
BullUndefined ==
  /\ HasPair(ret.price_valleys_idx)
  /\ \/ IsNaN(ret.rsi[LastOf(ret.price_valleys_idx)])
     \/ IsNaN(ret.rsi[PrevOf(ret.price_valleys_idx)])
BearUndefined ==
  /\ HasPair(ret.price_peaks_idx)
  /\ \/ IsNaN(ret.rsi[LastOf(ret.price_peaks_idx)])
     \/ IsNaN(ret.rsi[PrevOf(ret.price_peaks_idx)])
CurrHist == ret.macd_hist[NRet - 1]
PrevHist == ret.macd_hist[NRet - 2]

(* C1: the bullish check compares the two most recent valleys (strict      *)
(* local minima) of low, and the bearish check the two most recent peaks   *)
(* (strict local maxima) of high.  The code takes the first list of the    *)
(* pair for low and the second for high, that is the peaks of low and the  *)
(* valleys of high, so this fails.                                          *)
C1_ChecksCompareValleysOfLowAndPeaksOfHigh ==
  pc = "returned" =>
    /\ (IF HasPair(ret.price_valleys_idx)
        THEN {PrevOf(ret.price_valleys_idx), LastOf(ret.price_valleys_idx)}
        ELSE {}) = TopTwo(RefValleys(df.low, LOOKBACK))
    /\ (IF HasPair(ret.price_peaks_idx)
        THEN {PrevOf(ret.price_peaks_idx), LastOf(ret.price_peaks_idx)}
        ELSE {}) = TopTwo(RefPeaks(df.high, LOOKBACK))

(* C2: whenever the bearish condition holds, whether or not the bullish    *)
(* one holds too, the result is the bearish signal with the details and    *)
(* the confirmation computed by the bearish check.                          *)
C2_BearishResultWins ==
  pc = "returned" =>
    (BearPriceMomentum /\ BearAge < FRESH_BARS =>
       /\ ret.signal = "BEARISH DIV"
       /\ ret.details = Details(df.high[PrevOf(ret.price_peaks_idx)],
                                df.high[LastOf(ret.price_peaks_idx)],
                                ret.rsi[PrevOf(ret.price_peaks_idx)],
                                ret.rsi[LastOf(ret.price_peaks_idx)])
       /\ ret.macd_conf = IF FloatLt(CurrHist, PrevHist)
                          THEN "JA (Fallend)" ELSE "NEIN")

(* a series on which both conditions hold and the bearish result differs   *)
(* from what the bullish check had assigned                                 *)
C2_Witness ==
  /\ pc = "returned"
  /\ BullPriceMomentum /\ BullAge < FRESH_BARS
  /\ BearPriceMomentum /\ BearAge < FRESH_BARS
  /\ ret.signal = "BEARISH DIV"
  /\ ret.details # Details(df.low[PrevOf(ret.price_valleys_idx)],
                           df.low[LastOf(ret.price_valleys_idx)],
                           ret.rsi[PrevOf(ret.price_valleys_idx)],
                           ret.rsi[LastOf(ret.price_valleys_idx)])

(* C3: a check whose price and momentum conditions hold assigns its signal *)
(* exactly when N - last < 15: not at distance 15, and at distance 14.     *)
C3_FreshnessGate ==
  pc = "returned" =>
    /\ ret.bull => BullAge < 15
    /\ ret.bear => BearAge < 15
    /\ BullPriceMomentum => (ret.bull <=> BullAge < 15)
    /\ BearPriceMomentum => (ret.bear <=> BearAge < 15)
    /\ BullPriceMomentum /\ BullAge = 15 => ~ret.bull
    /\ BullPriceMomentum /\ BullAge = 14 => ret.bull
    /\ BearPriceMomentum /\ BearAge = 15 => ~ret.bear
    /\ BearPriceMomentum /\ BearAge = 14 => ret.bear

(* a divergence accepted with its last extremum 14 bars from the end *)
C3_Witness ==
  /\ pc = "returned"
  /\ BullPriceMomentum /\ BullAge = 14 /\ ret.bull
  /\ ret.signal = "BULLISH DIV"

(* C4: the confirmation is "-" exactly for Neutral; for a bullish result   *)
(* it is confirmed iff hist[N-1] > hist[N-2], for a bearish result iff     *)
(* hist[N-1] < hist[N-2].                                                   *)
C4_ConfirmationFromSignalAndHistogram ==
  pc = "returned" =>
    /\ ret.signal \in {"Neutral", "BULLISH DIV", "BEARISH DIV"}
    /\ ret.macd_conf = "-" <=> ret.signal = "Neutral"
    /\ ret.signal = "BULLISH DIV" =>
         ret.macd_conf = IF FloatGt(CurrHist, PrevHist)
                         THEN "JA (Steigend)" ELSE "NEIN"
    /\ ret.signal = "BEARISH DIV" =>
         ret.macd_conf = IF FloatLt(CurrHist, PrevHist)
                         THEN "JA (Fallend)" ELSE "NEIN"

(* a bearish result on a rising histogram, not confirmed, with the last    *)
(* peak-list index well before the end of the series                        *)
C4_Witness ==
  /\ pc = "returned"
  /\ ret.signal = "BEARISH DIV"
  /\ FloatGt(CurrHist, PrevHist)
  /\ ret.macd_conf = "NEIN"
  /\ BearAge > LOOKBACK + 1

(* C5: find_peaks_valleys returns exactly the reference sets, ascending    *)
(* and without repeats; an index tied with a neighbour is in neither list, *)
(* no index is in both, and both are empty when N < 2W.                    *)
C5_ExtremaAreReferenceSets ==
  pc = "found" =>
    /\ Elems(extrema[1]) = RefPeaks(series, lookback)
    /\ Elems(extrema[2]) = RefValleys(series, lookback)
    /\ Ascending(extrema[1]) /\ Ascending(extrema[2])
    /\ \A i \in lookback .. SLen(series) - lookback - 1 :
         TiesAt(series, lookback, i) =>
           i \notin Elems(extrema[1]) \cup Elems(extrema[2])
    /\ Elems(extrema[1]) \cap Elems(extrema[2]) = {}
    /\ SLen(series) < 2 * lookback => extrema = <<<< >>, << >>>>

(* a series with a peak, a valley and an inspected index tied with a       *)
(* neighbour                                                                *)
C5_Witness ==
  /\ pc = "found"
  /\ extrema[1] # << >> /\ extrema[2] # << >>
  /\ \E i \in lookback .. SLen(series) - lookback - 1 :
       TiesAt(series, lookback, i)

(* C6: the loop handles the timeframes in order, one log entry each;       *)
(* analyze_market is called, and a row appended, exactly for the fetches   *)
(* of more than MACD_SLOW candles; the rows are those timeframes in order. *)
LongFetches == SelectSeq(log, LAMBDA e : e.n > MACD_SLOW)
C6_RowsFollowFetches ==
  /\ Len(log) = tf
  /\ pc = "done" => tf = Len(TIMEFRAMES)
  /\ \A k \in 1 .. Len(log) :
       /\ log[k].tf = TIMEFRAMES[k]
       /\ log[k].called <=> log[k].n > MACD_SLOW
  /\ Len(results) = Len(LongFetches)
  /\ \A k \in 1 .. Len(results) : results[k][1] = LongFetches[k].tf
  /\ Len(results) <= Len(TIMEFRAMES)

(* a finished scan where a failed fetch and a fetch of exactly MACD_SLOW   *)
(* candles gave no row and the two later timeframes gave theirs            *)
C6_Witness ==
  /\ pc = "done"
  /\ log[1].n = 0 /\ log[2].n = MACD_SLOW
  /\ log[3].n > MACD_SLOW /\ log[4].n > MACD_SLOW
  /\ Len(results) = 2
  /\ results[1][1] = "4h" /\ results[2][1] = "1d"
  /\ results[2][3] # "Neutral"

(* C7 as stated: the list of the bullish check and the list of the bearish *)
(* check share no index.                                                    *)
C7_CheckListsDisjoint ==
  pc = "returned" =>
    Elems(ret.price_valleys_idx) \cap Elems(ret.price_peaks_idx) = {}

(* C7 amended: the two lists one find_peaks_valleys call returns for one   *)
(* series share no index (for low and for high alike).                      *)
C7_ListsOfOneSeriesDisjoint ==
  pc = "returned" =>
    /\ Elems(ret.low_extrema[1]) \cap Elems(ret.low_extrema[2]) = {}
    /\ Elems(ret.high_extrema[1]) \cap Elems(ret.high_extrema[2]) = {}

(* both calls returned a peak and a valley, and the lists the two checks   *)
(* use share an index                                                       *)
C7_Witness ==
  /\ pc = "returned"
  /\ ret.low_extrema[1] # << >> /\ ret.low_extrema[2] # << >>
  /\ ret.high_extrema[1] # << >> /\ ret.high_extrema[2] # << >>
  /\ Elems(ret.price_valleys_idx) \cap Elems(ret.price_peaks_idx) # {}

(* C8 as stated: every returned index i has W <= i < N - 1 - W. *)
C8_IndicesBelowLastInspectable ==
  pc = "found" =>
    \A i \in Elems(extrema[1]) \cup Elems(extrema[2]) :
      lookback <= i /\ i < SLen(series) - 1 - lookback

(* C8 amended: every returned index i has W <= i < N - W, so i = N - 1 - W *)
(* is possible.                                                             *)
C8_IndicesInLoopRange ==
  pc = "found" =>
    \A i \in Elems(extrema[1]) \cup Elems(extrema[2]) :
      lookback <= i /\ i < SLen(series) - lookback

(* the last inspectable index N - 1 - W is returned *)
C8_Witness ==
  /\ pc = "found"
  /\ SLen(series) - 1 - lookback \in Elems(extrema[1]) \cup Elems(extrema[2])

(* C9: rsi is undefined at every index 0 .. RSI_LENGTH - 1.  The code      *)
(* counts the change at index 0 (replaced by 0) as an observation, so      *)
(* index RSI_LENGTH - 1 is defined whenever the close has moved by then.   *)
C9_WarmUpCoversFirstFourteen ==
  pc = "returned" => \A i \in 0 .. RSI_LENGTH - 1 : IsNaN(ret.rsi[i])

(* C10: a check with an undefined momentum at its prev or last index does  *)
(* not assign its signal; when that is so for both, the result is Neutral. *)
C10_UndefinedMomentumNeverFires ==
  pc = "returned" =>
    /\ BullUndefined => ~ret.bull
    /\ BearUndefined => ~ret.bear
    /\ BullUndefined /\ BearUndefined =>
         /\ ret.signal = "Neutral"
         /\ ret.macd_conf = "-"
         /\ ret.details = <<"-">>

(* both checks have a fresh pair with the price condition met and an       *)
(* undefined momentum at the earlier index, where a later one is defined   *)
C10_Witness ==
  /\ pc = "returned"
  /\ BullUndefined /\ BearUndefined
  /\ BullAge < FRESH_BARS /\ BearAge < FRESH_BARS
  /\ df.low[LastOf(ret.price_valleys_idx)] < df.low[PrevOf(ret.price_valleys_idx)]
  /\ df.high[LastOf(ret.price_peaks_idx)] > df.high[PrevOf(ret.price_peaks_idx)]
  /\ ~IsNaN(ret.rsi[LastOf(ret.price_valleys_idx)])
  /\ ret.signal = "Neutral"
====
